---- MODULE Spec2Model ----
(***************************************************************************)
(* mDNS proxy (src/mdns_proxy.py): MDNSProxy.start receives datagrams on   *)
(* a multicast socket, classifies the source against the configured        *)
(* interfaces and runs one MDNSAgency per selected interface;              *)
(* MDNSAgency.start sends the payload to the interface's forward targets.  *)
(*                                                                         *)
(* IPv4 addresses and netmasks are unsigned integers of AddrBits bits; a   *)
(* network address is the bitwise AND of an address and a netmask, as      *)
(* ipaddress.IPv4Network(..., strict=False) computes it.                   *)
(***************************************************************************)
EXTENDS Integers, Sequences, FiniteSets

\* ------------------------------------------------------------------ bounds
AddrBits == 2
MaxIfaces == 2
MaxTargets == 2
MaxPayload == 2

\* ------------------------------------------------------ program constants
Port == 5353
Multicast == "224.0.0.251"

\* --------------------------------------------------------------- addresses
RECURSIVE Pow2(_)
Pow2(n) == IF n = 0 THEN 1 ELSE 2 * Pow2(n - 1)

Addr == 0 .. (Pow2(AddrBits) - 1)

\* '255.255.255.255': the all-ones netmask of a single host
HostMask == Pow2(AddrBits) - 1

\* the netmask of prefix length p: p one bits followed by zero bits
PrefixMask(p) == Pow2(AddrBits) - Pow2(AddrBits - p)

Masks == { PrefixMask(p) : p \in 0 .. AddrBits }

RECURSIVE BitAnd(_, _)
BitAnd(a, b) ==
    IF a = 0 \/ b = 0 THEN 0
    ELSE 2 * BitAnd(a \div 2, b \div 2) + (IF a % 2 = 1 /\ b % 2 = 1 THEN 1 ELSE 0)

\* ipaddress.IPv4Network((address, mask), strict=False)
IPv4Network(address, mask) ==
    [network_address |-> BitAnd(address, mask), netmask |-> mask]

\* ipaddress.IPv4Network(address, strict=False): no mask given, a /32 network
IPv4Host(address) == IPv4Network(address, HostMask)

\* ------------------------------------------------------------------ inputs
Payloads == 1 .. MaxPayload

\* a forwardto list of n targets: the top address (the multicast group's place), then
\* the addresses below it
ForwardList(n) == [j \in 1 .. n |-> HostMask + 1 - j]

ForwardLists == { ForwardList(n) : n \in 1 .. MaxTargets }

InterfaceRecords ==
    [ip : Addr, mask : Masks, forwardto : ForwardLists, reverse : BOOLEAN]

Configurations ==
    UNION { [1 .. n -> InterfaceRecords] : n \in 0 .. MaxIfaces }

VARIABLES
    interfaces,     \* MDNSProxy._interfaces
    bound,          \* the listening socket is bound to ('', port)
    pc,             \* position of MDNSProxy.start: "bind", "join", "recv", "exit"
    joined,         \* the memberships IP_ADD_MEMBERSHIP added, in order
    recieve,        \* the local recieve: the last datagram recvfrom returned
    local_network,  \* the local local_network
    same_address,   \* the local same_address
    agencies,       \* the local agencies
    event,          \* what the latest loop iteration got from recvfrom
    started,        \* the agencies whose start() was called in the latest iteration
    sent,           \* the sendto calls of the latest iteration, in order (the last
                    \* one raised if error.at = "MDNSAgency.sendto")
    error,          \* the exception raised in the latest step and the call that
                    \* raised it, or NoError
    sockets         \* for each agency started in the latest iteration, the calls
                    \* made on its socket, in order

vars == <<interfaces, bound, pc, joined, recieve, local_network, same_address,
          agencies, event, started, sent, error, sockets>>

NoPacket == [data |-> 0, addr |-> -1]
NoError == [kind |-> "none", at |-> "none"]

\* ------------------------------------------------- MDNSProxy.start, lines 113-133
\* lines 114-116 with the comparison never true
SameAddressNever(interface, rcv) == FALSE

\* lines 114-116: the interface's address is the datagram's source address
SameAddress(interface, rcv) ==
    IPv4Network(interface.ip, HostMask).network_address
        = IPv4Network(rcv.addr, HostMask).network_address

\* lines 120-124: the source lies in the interface's subnet
SameNetwork(interface, rcv) ==
    IPv4Network(interface.ip, interface.mask).network_address
        = IPv4Network(rcv.addr, interface.mask).network_address

\* lines 123-129 with the reverse flag ignored
AddAgencyAlways(interface, rcv) == TRUE

\* lines 123-129 with the test of line 124 inverted
AddAgencyInverted(interface, rcv) ==
    IF SameNetwork(interface, rcv) THEN TRUE ELSE interface.reverse = TRUE

\* lines 123-129: add_agency
AddAgency(interface, rcv) ==
    IF SameNetwork(interface, rcv) THEN interface.reverse = TRUE ELSE TRUE

\* lines 132-133: MDNSAgency(ip=..., forwardto=..., data=recieve, port=self._port)
MDNSAgency(interface, rcv) ==
    [ip |-> interface.ip, forwardto |-> interface.forwardto,
     data |-> rcv, port |-> Port]

\* lines 110-112: the locals as reset at the start of an iteration
ResetLocals == [local_network |-> FALSE, same_address |-> FALSE, agencies |-> <<>>]

\* lines 113-133 with a second break, taken once the source's subnet is found
RECURSIVE ClassifyFromBreakOnLocal(_, _, _, _)
ClassifyFromBreakOnLocal(ifs, rcv, i, st) ==
    IF i > Len(ifs) THEN st
    ELSE IF SameAddress(ifs[i], rcv)
         THEN [st EXCEPT !.same_address = TRUE]
         ELSE LET st2 == [local_network |-> st.local_network \/ SameNetwork(ifs[i], rcv),
                          same_address  |-> st.same_address,
                          agencies      |-> IF AddAgency(ifs[i], rcv)
                                            THEN Append(st.agencies, MDNSAgency(ifs[i], rcv))
                                            ELSE st.agencies]
              IN  IF SameNetwork(ifs[i], rcv) THEN st2
                  ELSE ClassifyFromBreakOnLocal(ifs, rcv, i + 1, st2)

\* lines 113-133: the for loop from interface i on, with its break
RECURSIVE ClassifyFrom(_, _, _, _)
ClassifyFrom(ifs, rcv, i, st) ==
    IF i > Len(ifs) THEN st
    ELSE IF SameAddress(ifs[i], rcv)
         THEN [st EXCEPT !.same_address = TRUE]
         ELSE ClassifyFrom(ifs, rcv, i + 1,
                [local_network |-> st.local_network \/ SameNetwork(ifs[i], rcv),
                 same_address  |-> st.same_address,
                 agencies      |-> IF AddAgency(ifs[i], rcv)
                                   THEN Append(st.agencies, MDNSAgency(ifs[i], rcv))
                                   ELSE st.agencies])

Classify(ifs, rcv, st) == ClassifyFrom(ifs, rcv, 1, st)

\* line 135 without the same_address test
AcceptedLocalOnly(st) == st.local_network = TRUE

\* line 135 without the local_network test
AcceptedNotSame(st) == st.same_address = FALSE

\* line 135
Accepted(st) == st.local_network = TRUE /\ st.same_address = FALSE

\* ------------------------------------------------- MDNSAgency.start, lines 70-82
\* What the environment makes fail in one iteration: one call of the task-th agency
\* started, either a set-up call (call = 0, at names it: socket(), one of the two
\* setsockopt() or bind()) or the sendto of the call-th target.  sendto on a socket
\* with a timeout may raise socket.timeout; the others raise another OSError.
NoFault == [task |-> 0, call |-> 0, kind |-> "none", at |-> "none"]

\* lines 71-74: the set-up calls that may raise
SetupCalls ==
    {"MDNSAgency.socket", "MDNSAgency.SO_REUSEADDR", "MDNSAgency.IP_MULTICAST_TTL",
     "MDNSAgency.bind"}

Faults ==
    {NoFault}
    \cup [task : 1 .. MaxIfaces, call : {0}, kind : {"oserror"}, at : SetupCalls]
    \cup [task : 1 .. MaxIfaces, call : 1 .. MaxTargets, kind : {"timeout", "oserror"},
          at : {"MDNSAgency.sendto"}]

\* line 80 with every target skipped
ForwardsNever(request_address, ip) == FALSE

\* line 80 without the comparison
ForwardsAlways(request_address, ip) == TRUE

\* line 80: the target is sent to
Forwards(request_address, ip) == request_address # IPv4Host(ip)

\* line 81 with the datagram addressed to the host it came from
DatagramToSource(agency, ip) ==
    [from |-> agency.ip, to |-> agency.data.addr, port |-> agency.port,
     data |-> agency.data.data]

\* line 81: the datagram handed to sendto, on the socket bound to the agency's address
Datagram(agency, ip) ==
    [from |-> agency.ip, to |-> ip, port |-> agency.port, data |-> agency.data.data]

\* lines 79-82: the for loop from target j on; sendto of target `call` raises `kind`
RECURSIVE SendLoop(_, _, _, _, _)
SendLoop(agency, j, call, kind, out) ==
    IF j > Len(agency.forwardto) THEN [sent |-> out, error |-> NoError]
    ELSE IF Forwards(IPv4Host(agency.data.addr), agency.forwardto[j])
         THEN IF j = call
              THEN [sent  |-> Append(out, Datagram(agency, agency.forwardto[j])),
                    error |-> [kind |-> kind, at |-> "MDNSAgency.sendto"]]
              ELSE SendLoop(agency, j + 1, call, kind,
                            Append(out, Datagram(agency, agency.forwardto[j])))
         ELSE SendLoop(agency, j + 1, call, kind, out)

\* lines 70-82: a raising set-up call leaves start() before any sendto
AgencyStart(agency, call, kind, at) ==
    IF at \in SetupCalls
    THEN [sent |-> <<>>, error |-> [kind |-> kind, at |-> at]]
    ELSE SendLoop(agency, 1, call, kind, <<>>)

\* line 73: struct.pack('b', 1)
MulticastTTL == 1

\* lines 86, 133, 75: the timeout handed to the agency and to settimeout
Timeout == 5

\* a call made on a socket
Call(op, arg) == [op |-> op, arg |-> arg]

\* lines 71-75: the socket is created (argument 1: socket() returned), SO_REUSEADDR
\* and IP_MULTICAST_TTL are set, the socket is bound to the agency's address and
\* its timeout set, in this order
SocketSetup(agency) ==
    << Call("socket", 1), Call("SO_REUSEADDR", 1),
       Call("IP_MULTICAST_TTL", MulticastTTL), Call("bind", agency.ip),
       Call("settimeout", Timeout) >>

\* lines 71-75 when the call `at` raises: the calls up to the raising one; when
\* socket() raises (argument 0) there is no socket
SetupMade(agency, at) ==
    IF at = "MDNSAgency.socket" THEN << Call("socket", 0) >>
    ELSE IF at = "MDNSAgency.SO_REUSEADDR" THEN SubSeq(SocketSetup(agency), 1, 2)
    ELSE IF at = "MDNSAgency.IP_MULTICAST_TTL" THEN SubSeq(SocketSetup(agency), 1, 3)
    ELSE IF at = "MDNSAgency.bind" THEN SubSeq(SocketSetup(agency), 1, 4)
    ELSE SocketSetup(agency)

\* lines 71-82 with the socket closed by a close() after the loop instead of the
\* with statement: a raising call leaves it open
SocketCallsCloseAtEnd(agency, r) ==
    SetupMade(agency, r.error.at)
        \o [j \in 1 .. Len(r.sent) |-> Call("sendto", r.sent[j].to)]
        \o (IF r.error = NoError THEN << Call("close", 0) >> ELSE <<>>)

\* lines 71-82: the calls of one execution that made the sendto calls r.sent and
\* ended with r.error, the raising call included; the with statement of line 71
\* closes the socket however the body ends, if socket() returned one
SocketCalls(agency, r) ==
    SetupMade(agency, r.error.at)
        \o [j \in 1 .. Len(r.sent) |-> Call("sendto", r.sent[j].to)]
        \o (IF r.error.at = "MDNSAgency.socket" THEN <<>> ELSE << Call("close", 0) >>)

\* lines 138-139: for agency in agencies: agency.start(); an exception ends the loop
RECURSIVE StartAgencies(_, _, _, _)
StartAgencies(ags, k, fault, acc) ==
    IF k > Len(ags) THEN acc
    ELSE LET f == IF fault.task = k THEN fault ELSE NoFault
             r == AgencyStart(ags[k], f.call, f.kind, f.at)
             acc2 == [started |-> Append(acc.started, ags[k]),
                      sent    |-> acc.sent \o r.sent,
                      error   |-> r.error,
                      sockets |-> Append(acc.sockets, SocketCalls(ags[k], r))]
         IN  IF r.error # NoError THEN acc2
             ELSE StartAgencies(ags, k + 1, fault, acc2)

\* lines 135-139
Relay(st, fault) ==
    IF Accepted(st)
    THEN StartAgencies(st.agencies, 1, fault,
                       [started |-> <<>>, sent |-> <<>>, error |-> NoError,
                        sockets |-> <<>>])
    ELSE [started |-> <<>>, sent |-> <<>>, error |-> NoError, sockets |-> <<>>]

\* the faults of calls the iteration makes: a call of an agency that is started
PossibleFaults(st) ==
    { f \in Faults :
        \/ f = NoFault
        \/ /\ Accepted(st)
           /\ f.task <= Len(st.agencies)
           /\ f.call <= Len(st.agencies[f.task].forwardto)
           /\ f.call > 0 => Forwards(IPv4Host(st.agencies[f.task].data.addr),
                                      st.agencies[f.task].forwardto[f.call]) }

\* ------------------------------------------------------------------ actions
Init ==
    /\ interfaces \in Configurations
    /\ bound = FALSE
    /\ pc = "bind"
    /\ joined = <<>>
    /\ recieve = NoPacket
    /\ local_network = FALSE
    /\ same_address = FALSE
    /\ agencies = <<>>
    /\ event = "none"
    /\ started = <<>>
    /\ sent = <<>>
    /\ error = NoError
    /\ sockets = <<>>

\* lines 99-101: socket(), SO_REUSEADDR, bind(('', port))
Bind ==
    /\ pc = "bind"
    /\ bound' = TRUE
    /\ pc' = "join"
    /\ UNCHANGED <<interfaces, joined, recieve, local_network, same_address,
                   agencies, event, started, sent, error, sockets>>

\* lines 99-101 raising: the exception leaves start()
BindFail ==
    /\ pc = "bind"
    /\ pc' = "exit"
    /\ error' = [kind |-> "oserror", at |-> "MDNSProxy.bind"]
    /\ UNCHANGED <<interfaces, bound, joined, recieve, local_network, same_address,
                   agencies, event, started, sent, sockets>>

\* line 103: inet_aton(self._multicast) + inet_aton(interface['ip'])
Membership(interface) == [group |-> Multicast, ip |-> interface.ip]

\* lines 102-103: IP_ADD_MEMBERSHIP for the next interface
Join ==
    /\ pc = "join"
    /\ Len(joined) < Len(interfaces)
    /\ joined' = Append(joined, Membership(interfaces[Len(joined) + 1]))
    /\ UNCHANGED <<interfaces, bound, pc, recieve, local_network, same_address,
                   agencies, event, started, sent, error, sockets>>

\* line 103 raising, the exception swallowed and the loop entered
JoinFailSwallowed ==
    /\ pc = "join"
    /\ Len(joined) < Len(interfaces)
    /\ pc' = "recv"
    /\ error' = [kind |-> "oserror", at |-> "MDNSProxy.setsockopt"]
    /\ UNCHANGED <<interfaces, bound, joined, recieve, local_network, same_address,
                   agencies, event, started, sent, sockets>>

\* line 103 raising: the exception leaves start()
JoinFail ==
    /\ pc = "join"
    /\ Len(joined) < Len(interfaces)
    /\ pc' = "exit"
    /\ error' = [kind |-> "oserror", at |-> "MDNSProxy.setsockopt"]
    /\ UNCHANGED <<interfaces, bound, joined, recieve, local_network, same_address,
                   agencies, event, started, sent, sockets>>

\* lines 104-106: settimeout, then the while loop is entered
EnterLoop ==
    /\ pc = "join"
    /\ Len(joined) = Len(interfaces)
    /\ pc' = "recv"
    /\ UNCHANGED <<interfaces, bound, joined, recieve, local_network, same_address,
                   agencies, event, started, sent, error, sockets>>

\* line 141 catching nothing
AfterExceptionUncaught(err) == IF err.kind = "none" THEN "recv" ELSE "exit"

\* line 141: the exception of an iteration is caught only if it is socket.timeout
AfterException(err) == IF err.kind \in {"none", "timeout"} THEN "recv" ELSE "exit"

\* lines 108, 141-142: recvfrom raises socket.timeout; except: pass
RecvTimeout ==
    /\ pc = "recv"
    /\ event' = "timeout"
    /\ started' = <<>>
    /\ sent' = <<>>
    /\ sockets' = <<>>
    /\ error' = [kind |-> "timeout", at |-> "MDNSProxy.recvfrom"]
    /\ pc' = AfterException([kind |-> "timeout", at |-> "MDNSProxy.recvfrom"])
    /\ UNCHANGED <<interfaces, bound, joined, recieve, local_network, same_address,
                   agencies>>

\* lines 108, 141: recvfrom raises an OSError that is not socket.timeout; the
\* handler does not catch it and the exception leaves start()
RecvFail ==
    /\ pc = "recv"
    /\ event' = "oserror"
    /\ started' = <<>>
    /\ sent' = <<>>
    /\ sockets' = <<>>
    /\ error' = [kind |-> "oserror", at |-> "MDNSProxy.recvfrom"]
    /\ pc' = AfterException([kind |-> "oserror", at |-> "MDNSProxy.recvfrom"])
    /\ UNCHANGED <<interfaces, bound, joined, recieve, local_network, same_address,
                   agencies>>

\* lines 108-139: one iteration that receives the datagram (data, addr)
RecvPacket(data, addr) ==
    /\ pc = "recv"
    /\ \E st \in {Classify(interfaces, [data |-> data, addr |-> addr], ResetLocals)} :
       \E fault \in PossibleFaults(st) :
       \E r \in {Relay(st, fault)} :
           /\ recieve' = [data |-> data, addr |-> addr]
           /\ local_network' = st.local_network
           /\ same_address' = st.same_address
           /\ agencies' = st.agencies
           /\ event' = "packet"
           /\ started' = r.started
           /\ sent' = r.sent
           /\ sockets' = r.sockets
           /\ error' = r.error
           /\ pc' = AfterException(r.error)
    /\ UNCHANGED <<interfaces, bound, joined>>

Recv == \E data \in Payloads, addr \in Addr : RecvPacket(data, addr)

Next ==
    \/ Bind
    \/ BindFail
    \/ Join
    \/ JoinFail
    \/ EnterLoop
    \/ RecvTimeout
    \/ RecvFail
    \/ Recv

Spec == Init /\ [][Next]_vars

\* ------------------------------------------------------------------- claims
Src == recieve.addr

IfaceIdx == 1 .. Len(interfaces)

\* the source lies in the subnet of interface i: both masked by the interface's mask
InSubnet(i) ==
    BitAnd(Src, interfaces[i].mask) = BitAnd(interfaces[i].ip, interfaces[i].mask)

OwnAddress == \E i \in IfaceIdx : interfaces[i].ip = Src

\* the task of an interface for the datagram received
TaskOf(interface) ==
    [ip |-> interface.ip, forwardto |-> interface.forwardto, data |-> recieve,
     port |-> Port]

\* C1: a datagram whose source address is the ip of a configured interface, at any
\* position of the list, starts no agency and makes no sendto call.
C1_SelfEchoSuppressed ==
    (event = "packet" /\ OwnAddress) => (started = <<>> /\ sent = <<>>)

\* the source is the second interface's address and lies in the first one's subnet,
\* which has reverse set: a task was built before the break, and none was started
C1_Witness ==
    /\ event = "packet"
    /\ Len(interfaces) = 2
    /\ interfaces[2].ip = Src
    /\ interfaces[1].ip # Src
    /\ InSubnet(1) /\ interfaces[1].reverse
    /\ agencies # <<>>
    /\ started = <<>>

\* C2: an agency is started or a sendto call made only for a datagram whose source
\* lies in the subnet of some configured interface and is no configured interface's
\* address; a source in no configured subnet gets nothing.
C2_OnlyLocalSourcesRelayed ==
    (started # <<>> \/ sent # <<>>) =>
        /\ event = "packet"
        /\ \E i \in IfaceIdx : InSubnet(i)
        /\ ~OwnAddress

\* a datagram from no configured subnet: every interface is foreign to it, a task
\* was built for each, and nothing was started or sent
C2_Witness ==
    /\ event = "packet"
    /\ Len(interfaces) = 2
    /\ \A i \in IfaceIdx : ~InSubnet(i)
    /\ Len(agencies) = 2
    /\ started = <<>> /\ sent = <<>>

\* the interfaces whose task is to be run for the datagram, in configuration order
Eligible(interface) ==
    \/ BitAnd(Src, interface.mask) # BitAnd(interface.ip, interface.mask)
    \/ interface.reverse

ForwardSet == SelectSeq(interfaces, Eligible)

ForwardTasks == [k \in 1 .. Len(ForwardSet) |-> TaskOf(ForwardSet[k])]

\* C3: for an accepted datagram the agencies started are, once each and in order,
\* those of the interfaces whose subnet does not contain the source or whose reverse
\* flag is set.
C3_ForwardSetExecuted ==
    (event = "packet" /\ local_network /\ ~same_address) => started = ForwardTasks

\* C4: no sendto call goes to a target that is the source address of the datagram.
C4_NoSendToSource ==
    \A k \in 1 .. Len(sent) : sent[k].to # Src

\* an agency was started whose forwardto names the source, and it made a sendto call
C4_Witness ==
    /\ event = "packet"
    /\ \E k \in 1 .. Len(started) :
          /\ \E j \in 1 .. Len(started[k].forwardto) : started[k].forwardto[j] = Src
          /\ \E n \in 1 .. Len(sent) : sent[n].from = started[k].ip

\* the sendto calls of a task: one for each target that is not the source
RECURSIVE CallsOf(_, _)
CallsOf(task, j) ==
    IF j > Len(task.forwardto) THEN <<>>
    ELSE (IF task.forwardto[j] # Src
          THEN << [from |-> task.ip, to |-> task.forwardto[j], port |-> task.port,
                   data |-> task.data.data] >>
          ELSE <<>>) \o CallsOf(task, j + 1)

RECURSIVE CallsOfAll(_, _)
CallsOfAll(tasks, k) ==
    IF k > Len(tasks) THEN <<>> ELSE CallsOf(tasks[k], 1) \o CallsOfAll(tasks, k + 1)

\* C5: when a sendto call raises, the calls for the later targets of the task and the
\* remaining tasks of the datagram are still made.
C5_SendFailureIsolated ==
    (event = "packet" /\ error.at = "MDNSAgency.sendto") =>
        /\ started = agencies
        /\ sent = CallsOfAll(agencies, 1)

\* C6: after a failure in an agency (socket, bind or sendto) the proxy is at recvfrom
\* again.
C6_ForwardFailureKeepsRunning ==
    (event = "packet" /\ error # NoError) => pc = "recv"

\* C7: an iteration whose recvfrom times out starts no agency, makes no sendto call,
\* builds no task and leaves the proxy at recvfrom, whatever came before.
C7_TimeoutIsNotAnError ==
    [][event' = "timeout" =>
          /\ pc' = "recv"
          /\ started' = <<>> /\ sent' = <<>>
          /\ agencies' = agencies]_vars

\* a timeout after a datagram for which tasks were built
C7_Witness ==
    /\ event = "timeout"
    /\ recieve # NoPacket
    /\ agencies # <<>>
    /\ pc = "recv"

\* C8: the loop is entered, and anything received or sent, only with the socket bound
\* and one membership added per interface record, in order; when the bind or a join
\* raises, start() is left with nothing received or sent.
C8_StartupAllOrNothing ==
    /\ (pc = "recv" \/ event # "none" \/ started # <<>> \/ sent # <<>>) =>
          /\ bound
          /\ joined = [i \in IfaceIdx |-> [group |-> Multicast, ip |-> interfaces[i].ip]]
    /\ error.at \in {"MDNSProxy.bind", "MDNSProxy.setsockopt"} =>
          /\ pc = "exit"
          /\ event = "none" /\ recieve = NoPacket
          /\ started = <<>> /\ sent = <<>>

\* the second join raised after the first succeeded
C8_Witness ==
    /\ error.at = "MDNSProxy.setsockopt"
    /\ Len(joined) = 1
    /\ pc = "exit"

\* interface i is foreign to the source and another interface's subnet contains it
ForeignToLocal(i) ==
    /\ ~InSubnet(i)
    /\ \E j \in IfaceIdx \ {i} : InSubnet(j)

\* C9 as stated: whenever the source is outside the subnet of interface I and inside
\* the subnet of another interface, I's task is started for the datagram.
C9_ForeignToLocalRelayed ==
    event = "packet" =>
        \A i \in IfaceIdx :
            ForeignToLocal(i) => \E k \in 1 .. Len(started) : started[k] = TaskOf(interfaces[i])

\* C9 amended: if moreover the source is no configured interface's address, the
\* datagram is accepted and I's task is one of the tasks built for it.
C9_ForeignToLocalSelected ==
    event = "packet" =>
        \A i \in IfaceIdx :
            (ForeignToLocal(i) /\ ~OwnAddress) =>
                /\ local_network /\ ~same_address
                /\ \E k \in 1 .. Len(agencies) : agencies[k] = TaskOf(interfaces[i])

\* a datagram from the second interface's subnet, foreign to the first: the first
\* interface's agency was started and made a sendto call
C9_Witness ==
    /\ event = "packet"
    /\ Len(interfaces) = 2
    /\ ForeignToLocal(1)
    /\ ~OwnAddress
    /\ started # <<>> /\ started[1] = TaskOf(interfaces[1])
    /\ sent # <<>> /\ sent[1].from = interfaces[1].ip

\* C10: two iterations that receive the same datagram make the same sendto calls
\* (here: the same datagram received again in the next iteration).
C10_SamePacketSameCalls ==
    [][(event = "packet" /\ event' = "packet" /\ recieve' = recieve) => sent' = sent]_vars

\* the address lies in a configured subnet that contains the source
InOriginNetwork(a) ==
    \E i \in IfaceIdx :
        /\ InSubnet(i)
        /\ BitAnd(a, interfaces[i].mask) = BitAnd(interfaces[i].ip, interfaces[i].mask)

IsPrefix(s, t) == Len(s) <= Len(t) /\ s = SubSeq(t, 1, Len(s))

\* C11 as stated: no sendto call goes to a target that lies in the network the
\* datagram originated from.
C11_NoSendIntoOriginNetwork ==
    \A k \in 1 .. Len(sent) : ~InOriginNetwork(sent[k].to)

\* C11 amended: the only targets skipped are those equal to the source host; the
\* sendto calls made are, in order, the calls for the targets that differ from the
\* source address, whether or not they lie in the origin network, up to a call that
\* raises, and all of them when nothing raises.
C11_OnlySourceHostSkipped ==
    event = "packet" =>
        /\ IsPrefix(sent, CallsOfAll(started, 1))
        /\ error = NoError => sent = CallsOfAll(started, 1)

\* a sendto call to a target inside the origin network, in a task that skipped the
\* source itself
C11_Witness ==
    /\ event = "packet"
    /\ error = NoError
    /\ \E k \in 1 .. Len(sent) : InOriginNetwork(sent[k].to)
    /\ \E k \in 1 .. Len(started) :
          \E j \in 1 .. Len(started[k].forwardto) : started[k].forwardto[j] = Src

\* interface i is the only record with its address, so that a task or a sendto call
\* from that address is its own
UniqueAddress(i) == \A j \in IfaceIdx \ {i} : interfaces[j].ip # interfaces[i].ip

\* C12 as stated: a datagram whose source is outside the subnet of an interface with
\* reverse = False is never sent to that interface's forward targets.
C12_ForeignNeverForwarded ==
    event = "packet" =>
        \A i \in IfaceIdx :
            (~interfaces[i].reverse /\ UniqueAddress(i) /\ ~InSubnet(i)) =>
                \A k \in 1 .. Len(sent) : sent[k].from # interfaces[i].ip

\* C12 amended: reverse = False keeps a datagram from being relayed back through the
\* interface of the segment it came from: the task of an interface with
\* reverse = False is built exactly when the source is outside its subnet, and no
\* agency is started and no sendto call made from its address for a source inside.
C12_ReverseFalseNotBackIntoOwnSegment ==
    (event = "packet" /\ ~same_address) =>
        \A i \in IfaceIdx :
            (~interfaces[i].reverse /\ UniqueAddress(i)) =>
                /\ (\E k \in 1 .. Len(agencies) : agencies[k] = TaskOf(interfaces[i]))
                      <=> ~InSubnet(i)
                /\ InSubnet(i) =>
                      /\ \A k \in 1 .. Len(started) : started[k].ip # interfaces[i].ip
                      /\ \A k \in 1 .. Len(sent) : sent[k].from # interfaces[i].ip

\* an accepted datagram from the subnet of the first interface, which has
\* reverse = False and gets no task, relayed through the second, which also has
\* reverse = False and is foreign to the source
C12_Witness ==
    /\ event = "packet"
    /\ Len(interfaces) = 2
    /\ ~interfaces[1].reverse /\ ~interfaces[2].reverse
    /\ UniqueAddress(1)
    /\ InSubnet(1) /\ ~InSubnet(2)
    /\ agencies = << TaskOf(interfaces[2]) >>
    /\ sent # <<>>
    /\ \A k \in 1 .. Len(sent) : sent[k].from = interfaces[2].ip

\* the elements of a sequence
Range(s) == { s[j] : j \in 1 .. Len(s) }

\* C13: every sendto call carries the payload of the datagram received, unchanged,
\* and is addressed to (target, port) with the target one of the forward targets of
\* the interface whose agency makes the call; no call goes anywhere else.
C13_PayloadAndTargetsKept ==
    \A k \in 1 .. Len(sent) :
        /\ event = "packet"
        /\ sent[k].data = recieve.data
        /\ sent[k].port = Port
        /\ \E n \in 1 .. Len(started) :
              /\ started[n].ip = sent[k].from
              /\ sent[k].to \in Range(started[n].forwardto)
        /\ \E i \in IfaceIdx :
              /\ interfaces[i].ip = sent[k].from
              /\ sent[k].to \in Range(interfaces[i].forwardto)

\* two interfaces relayed a datagram with the larger payload: several sendto calls,
\* from both addresses
C13_Witness ==
    /\ event = "packet"
    /\ recieve.data = MaxPayload
    /\ Len(started) = 2
    /\ Len(sent) >= 2
    /\ sent[1].from # sent[Len(sent)].from

\* the sendto calls of the iteration made from address a to target t
CallsFromTo(a, t) == { k \in 1 .. Len(sent) : sent[k].from = a /\ sent[k].to = t }

\* the configured (interface, target) pairs with address a and target t
ConfiguredFromTo(a, t) ==
    { p \in IfaceIdx \X (1 .. MaxTargets) :
        /\ p[2] <= Len(interfaces[p[1]].forwardto)
        /\ interfaces[p[1]].ip = a
        /\ interfaces[p[1]].forwardto[p[2]] = t }

\* every sendto call is made from the address of a configured interface, and there
\* is at most one call per configured forward target per interface
EmittedFromInterfaces ==
    /\ \A k \in 1 .. Len(sent) : \E i \in IfaceIdx : interfaces[i].ip = sent[k].from
    /\ \A k \in 1 .. Len(sent) :
          Cardinality(CallsFromTo(sent[k].from, sent[k].to))
              <= Cardinality(ConfiguredFromTo(sent[k].from, sent[k].to))

\* the datagram received in the step is one the previous iteration emitted
EchoReceived ==
    /\ event' = "packet"
    /\ \E k \in 1 .. Len(sent) :
          recieve' = [data |-> sent[k].data, addr |-> sent[k].from]

\* C14: every sendto call is made from a socket bound to the address of a configured
\* interface, at most once per configured forward target per interface, and a
\* datagram so emitted that comes back to the receiving socket is classified
\* same_address and causes no agency to start and no sendto call.
C14_NoRelayLoop ==
    [][/\ EmittedFromInterfaces'
       /\ EchoReceived => (same_address' /\ started' = <<>> /\ sent' = <<>>)]_vars

\* a datagram from the address of the first interface and inside the subnet of the
\* second, as an emission of the first interface's agency would be: nothing started
C14_Witness ==
    /\ event = "packet"
    /\ Len(interfaces) = 2
    /\ interfaces[1].ip = Src
    /\ interfaces[2].ip # Src
    /\ InSubnet(2)
    /\ same_address
    /\ started = <<>> /\ sent = <<>>
    /\ pc = "recv"

\* The two-pass reference: the same-address check over all interfaces first, then
\* the subnet and reverse logic over all interfaces.
TwoPassSameAddress(ifs, rcv) == \E i \in 1 .. Len(ifs) : SameAddress(ifs[i], rcv)

TwoPassLocalNetwork(ifs, rcv) == \E i \in 1 .. Len(ifs) : SameNetwork(ifs[i], rcv)

RECURSIVE TwoPassTasksFrom(_, _, _)
TwoPassTasksFrom(ifs, rcv, i) ==
    IF i > Len(ifs) THEN <<>>
    ELSE (IF AddAgency(ifs[i], rcv) THEN << MDNSAgency(ifs[i], rcv) >> ELSE <<>>)
         \o TwoPassTasksFrom(ifs, rcv, i + 1)

TwoPassAccepted(ifs, rcv) ==
    ~TwoPassSameAddress(ifs, rcv) /\ TwoPassLocalNetwork(ifs, rcv)

TwoPassForward(ifs, rcv) ==
    IF TwoPassAccepted(ifs, rcv) THEN TwoPassTasksFrom(ifs, rcv, 1) ELSE <<>>

\* C15: the single pass with its break decides as the two-pass reference does: the
\* datagram is accepted exactly when the reference accepts it, and the agencies
\* started are the reference's tasks in the reference's order (all of them when no
\* call raises, the same leading ones when a call ends the iteration).
C15_SinglePassAsTwoPass ==
    event = "packet" =>
        /\ (local_network /\ ~same_address) <=> TwoPassAccepted(interfaces, recieve)
        /\ IsPrefix(started, TwoPassForward(interfaces, recieve))
        /\ error = NoError => started = TwoPassForward(interfaces, recieve)
        /\ error # NoError => started # <<>>

\* the break left the locals short of the reference's: the source is the second
\* interface's address, the first interface is foreign to it and got a task, and
\* local_network was never set although the second interface's subnet contains the
\* source; nothing was started
C15_Witness ==
    /\ event = "packet"
    /\ Len(interfaces) = 2
    /\ interfaces[2].ip = Src
    /\ ~InSubnet(1)
    /\ TwoPassLocalNetwork(interfaces, recieve) /\ ~local_network
    /\ Len(agencies) = 1
    /\ Len(TwoPassTasksFrom(interfaces, recieve, 1)) = 2
    /\ started = <<>>

\* the orders of an interface list
Orders(ifs) ==
    { [k \in 1 .. Len(ifs) |-> ifs[pi[k]]] :
        pi \in { q \in [1 .. Len(ifs) -> 1 .. Len(ifs)] :
                    \A a, b \in 1 .. Len(ifs) : a # b => q[a] # q[b] } }

\* C16: under any other order of the interface list the datagram is accepted exactly
\* when it is accepted under the configured order, and the iteration makes the same
\* set of sendto calls and ends the same way.
C16_OrderIndependent ==
    event = "packet" =>
        \A p \in Orders(interfaces) :
            \E stp \in {Classify(p, recieve, ResetLocals)} :
                /\ Accepted(stp) <=> (local_network /\ ~same_address)
                /\ \E f \in PossibleFaults(stp) :
                      \E r \in {Relay(stp, f)} :
                          /\ r.error = error
                          /\ Range(r.sent) = Range(sent)

\* the number of targets of a task that differ from the source
SendCount(task) ==
    Cardinality({ j \in 1 .. Len(task.forwardto) : task.forwardto[j] # Src })

RECURSIVE SendCountAll(_, _)
SendCountAll(tasks, k) ==
    IF k > Len(tasks) THEN 0 ELSE SendCount(tasks[k]) + SendCountAll(tasks, k + 1)

\* C17: every agency started whose socket was set up makes exactly one sendto call
\* for each target of its list that differs from the source, in list order, and none
\* for a target equal to the source; when no sendto call raises, the calls made for
\* an accepted datagram number the sum of these counts over its tasks.
C17_OneSendPerTarget ==
    (event = "packet" /\ error.at \notin SetupCalls) =>
        /\ sent = CallsOfAll(started, 1)
        /\ (local_network /\ ~same_address /\ error.at # "MDNSAgency.sendto") =>
              Len(sent) = SendCountAll(agencies, 1)

\* the position of the first call of a socket with the given name, 0 if none
FirstCall(calls, op) ==
    IF \E j \in 1 .. Len(calls) : calls[j].op = op
    THEN CHOOSE j \in 1 .. Len(calls) :
            /\ calls[j].op = op
            /\ \A n \in 1 .. j - 1 : calls[n].op # op
    ELSE 0

\* the socket is open after its calls: socket() returned it and it is not closed
IsOpen(calls) ==
    /\ calls # <<>>
    /\ calls[1] = Call("socket", 1)
    /\ FirstCall(calls, "close") = 0

\* C18: each agency started opens one socket of its own, none when socket() raises;
\* the multicast TTL of the socket is set to 1 before the bind and any sendto on it,
\* and the socket is closed after its last call even when a set-up call or a sendto
\* raises; so no agency's socket is open when the proxy is at recvfrom, or when
\* start() is left.
C18_ForwarderSocketsScoped ==
    /\ Len(sockets) = Len(started)
    /\ \A k \in 1 .. Len(sockets) :
          /\ sockets[k] # <<>>
          /\ sockets[k][1].op = "socket"
          /\ \A j \in 2 .. Len(sockets[k]) : sockets[k][j].op # "socket"
          /\ sockets[k][1].arg = 0 => Len(sockets[k]) = 1
          /\ sockets[k][1].arg = 1 =>
                /\ sockets[k][Len(sockets[k])].op = "close"
                /\ FirstCall(sockets[k], "close") = Len(sockets[k])
          /\ \A j \in 1 .. Len(sockets[k]) :
                sockets[k][j].op \in {"bind", "sendto"} =>
                    /\ FirstCall(sockets[k], "IP_MULTICAST_TTL") > 0
                    /\ FirstCall(sockets[k], "IP_MULTICAST_TTL") < j
                    /\ sockets[k][FirstCall(sockets[k], "IP_MULTICAST_TTL")].arg = 1
    /\ pc \in {"recv", "exit"} => \A k \in 1 .. Len(sockets) : ~IsOpen(sockets[k])

\* back at recvfrom after a sendto of the second agency raised socket.timeout: both
\* sockets were used and are closed
C18_Witness ==
    /\ pc = "recv"
    /\ event = "packet"
    /\ error = [kind |-> "timeout", at |-> "MDNSAgency.sendto"]
    /\ Len(sockets) = 2
    /\ \A k \in 1 .. 2 :
          /\ FirstCall(sockets[k], "sendto") > 0
          /\ ~IsOpen(sockets[k])

====
